---- MODULE Spec2Model ----
(***************************************************************************)
(* Execution tracing and event streaming of the chat demo:                 *)
(*   - DebugLogger (src/base/backend/debug_logger.py): the trace store,    *)
(*     its id/level counters, its status callback and the debug_track      *)
(*     wrapper;                                                            *)
(*   - the orchestrators that drive it: BaseChatHandler.process_chat,      *)
(*     VibeCheckHandler.process_chat and chat.event_stream of api/app.py.  *)
(* Log entries are Python dicts shared by reference between the log list,  *)
(* the debug queue and the wrapper, so they live in a heap (objs) and the  *)
(* list and the queues hold object ids.  asyncio runs one coroutine at a   *)
(* time: an action is the code between two suspension points.             *)
(***************************************************************************)
EXTENDS Integers, Sequences, FiniteSets, TLC

\* ------------------------------------------------------------------ bounds
MaxEntries == 3      \* entries that may be allocated under Spec
MaxClears == 1       \* clear() calls made by the environment of Spec
MaxCalls == 2        \* instrumented calls started by the environment of Spec
MaxChunks == 2       \* chunks the model stream may deliver per request
MaxLoads == 4        \* calls of load_homework_handler
MaxCommands == 2     \* console commands given to RAGHandler

Reqs == {1, 2}       \* requests (each owns one debug queue and one output stream)
Statuses == {"pending", "success", "error"}
Terminal == {"success", "error"}

VARIABLES
  logs,             \* DebugLogger.logs: the entries in list order (object ids)
  objs,             \* heap of entry dicts, by object id
  current_id,       \* DebugLogger.current_id
  level,            \* DebugLogger.level
  status_callback,  \* DebugLogger.status_callback: 0 (None) or the request whose queue it feeds
  queues,           \* debug_queue of each request (object ids)
  notified,         \* history: what each callback invocation was handed
  returned,         \* history: ids returned by add_log since the last clear()
  calls,            \* invocations of debug_track wrappers
  clears,           \* history: number of clear() calls
  orch,             \* each request's orchestrator (generator) state
  out,              \* each request's output stream (records yielded)
  handler_cache,    \* homework_app._handler_cache: feature id -> instance (0: no key)
  loads,            \* history: the calls of load_homework_handler and how each ended
  config,           \* RAGHandler.config
  console           \* the console command of RAGHandler that is being executed

store_vars == <<logs, objs, current_id, level, status_callback, queues, notified, returned>>
app_vars == <<handler_cache, loads, config, console>>
vars == <<logs, objs, current_id, level, status_callback, queues, notified, returned,
          calls, clears, orch, out, handler_cache, loads, config, console>>

Min(S) == CHOOSE x \in S : \A y \in S : x <= y

\* The logger and its subscriber queues as one value, so that a handler that
\* makes several calls is the composition of their effects.
St == [logs |-> logs, objs |-> objs, current_id |-> current_id, level |-> level,
       status_callback |-> status_callback, queues |-> queues,
       notified |-> notified, returned |-> returned]

SetSt(s) ==
  /\ logs' = s.logs
  /\ objs' = s.objs
  /\ current_id' = s.current_id
  /\ level' = s.level
  /\ status_callback' = s.status_callback
  /\ queues' = s.queues
  /\ notified' = s.notified
  /\ returned' = s.returned

\* ------------------------------------------------------------ DebugLogger

\* asyncio.Queue(): the queue of a request is created without maxsize.
maxsize == 0

\* Queue.full(): a queue with maxsize <= 0 is never full.
full(queue) == IF maxsize <= 0 THEN FALSE ELSE Len(queue) >= maxsize

stream_debug_update_lifo(s, q, o) == [s EXCEPT !.queues[q] = <<o>> \o @]

\* A variant of stream_debug_update on a queue created with maxsize=1.
stream_debug_update_maxsize_1(s, q, o) ==
  IF Len(s.queues[q]) >= 1 THEN s ELSE [s EXCEPT !.queues[q] = Append(@, o)]

\* stream_debug_update: put_nowait on the request's queue; QueueFull, raised
\* by a full queue, is caught and the event is dropped.
stream_debug_update(s, q, o) ==
  IF full(s.queues[q]) THEN s ELSE [s EXCEPT !.queues[q] = Append(@, o)]

\* "if self.status_callback: self.status_callback(log_entry)"
InvokeCallback(s, o) ==
  IF s.status_callback = 0 THEN s
  ELSE [stream_debug_update(s, s.status_callback, o) EXCEPT
          !.notified = Append(@, [sub |-> s.status_callback, oid |-> o,
                                  id |-> s.objs[o].id,
                                  status |-> s.objs[o].status,
                                  ctype |-> s.objs[o].ctype,
                                  data |-> s.objs[o].data])]

add_log_no_increment(s, title, status, content_type, data) ==
  LET o == Len(s.objs) + 1
      e == [id |-> s.current_id, parent_id |-> 0, level |-> s.level, title |-> title,
            status |-> status, ctype |-> content_type, data |-> data]
  IN InvokeCallback([s EXCEPT !.objs = Append(@, e), !.logs = Append(@, o),
                              !.returned = Append(@, s.current_id)], o)

\* add_log: the id it returns is the current_id of the resulting store.
add_log(s, title, status, content_type, data) ==
  LET id == s.current_id + 1
      o == Len(s.objs) + 1
      e == [id |-> id, parent_id |-> 0, level |-> s.level, title |-> title,
            status |-> status, ctype |-> content_type, data |-> data]
  IN InvokeCallback([s EXCEPT !.current_id = id,
                              !.objs = Append(@, e),
                              !.logs = Append(@, o),
                              !.returned = Append(@, id)], o)

\* First entry of the list with the given id, 0 when there is none.
FindLog(s, log_id) ==
  LET hits == {i \in 1..Len(s.logs) : s.objs[s.logs[i]].id = log_id}
  IN IF hits = {} THEN 0 ELSE s.logs[Min(hits)]

\* A variant of update_log_status that adds an entry when the id is unknown.
update_log_status_upsert(s, log_id, status, data) ==
  LET o == FindLog(s, log_id)
  IN IF o = 0 THEN add_log(s, "unknown", status, "clickable", data)
     ELSE InvokeCallback([s EXCEPT !.objs[o].status = status,
                                   !.objs[o].data = IF data = "none" THEN @ ELSE data], o)

update_log_status_silent(s, log_id, status, data) ==
  LET o == FindLog(s, log_id)
  IN IF o = 0 THEN s
     ELSE [s EXCEPT !.objs[o].status = status,
                    !.objs[o].data = IF data = "none" THEN @ ELSE data]

\* A variant of update_log_status that moves the updated entry to the end of the list.
update_log_status_reinsert(s, log_id, status, data) ==
  LET o == FindLog(s, log_id)
  IN IF o = 0 THEN s
     ELSE InvokeCallback([s EXCEPT !.objs[o].status = status,
                                   !.objs[o].data = IF data = "none" THEN @ ELSE data,
                                   !.logs = Append(SelectSeq(@, LAMBDA x : x # o), o)], o)

\* update_log_status: data "none" stands for data=None (content data kept).
update_log_status(s, log_id, status, data) ==
  LET o == FindLog(s, log_id)
  IN IF o = 0 THEN s
     ELSE InvokeCallback([s EXCEPT !.objs[o].status = status,
                                   !.objs[o].data = IF data = "none" THEN @ ELSE data], o)

start_section(s, title) == add_log([s EXCEPT !.level = @ + 1], title, "success", "clickable", "none")

end_section(s) == [s EXCEPT !.level = IF @ - 1 > 0 THEN @ - 1 ELSE 0]

\* A variant of clear that keeps the id counter.
clear_keep_counter(s) == [s EXCEPT !.logs = <<>>, !.level = 0, !.returned = <<>>]

clear(s) == [s EXCEPT !.logs = <<>>, !.current_id = 0, !.level = 0, !.returned = <<>>]

\* A variant of set_status_callback that keeps a callback already registered.
set_status_callback_keep_first(s, cb) ==
  IF s.status_callback = 0 THEN [s EXCEPT !.status_callback = cb] ELSE s

set_status_callback(s, cb) == [s EXCEPT !.status_callback = cb]

\* ------------------------------------------------------------ debug_track
\* One invocation of a wrapper produced by debug_track.
\*   pc: "new" (not yet entered), "sleeping" (entry added, suspended in the
\*   wrapper's sleep or in the wrapped function), "awaiting" (the wrapped
\*   function awaits a nested instrumented call), "done".
\*   A task created with asyncio.create_task touches nothing before its
\*   wrapper is entered, so a call is recorded from that moment on.
\*   log_id is the wrapper's local variable; oid, before, after, depth and
\*   cleared are history: the entry object the call created, the level before it
\*   entered and after it left, the number of open calls on its own call chain
\*   (itself included) when it entered, and whether clear() ran while it was open;
\*   failed records that the wrapped function raised.
\*   outcomes says how the wrapped function can end: "ok", "fail" or "either".
\*   plain marks a coroutine that is run as a task without being decorated.
\*   due is 0, or the step group of its request before which the function's
\*   own sleep cannot elapse (see Elapsed).
\*   value is what the wrapped function returns when it returns: None
\*   ("None"), a JSON-serialisable value whose str() is shorter than 1000
\*   characters ("small") or not ("large"), or a value json.dumps rejects
\*   ("object"); track_result is the decorator's parameter; runs counts the
\*   executions of the wrapped function (history).
NewCall(name, req, optional, ctype, args, nested, outcomes, parent, depth) ==
  [name |-> name, req |-> req, optional |-> optional, ctype |-> ctype, args |-> args,
   nested |-> nested, outcomes |-> outcomes, parent |-> parent, depth |-> depth,
   plain |-> FALSE, due |-> 0, pc |-> "new", log_id |-> 0, oid |-> 0, before |-> 0, after |-> 0,
   result |-> "unset", raised |-> FALSE, failed |-> FALSE, cleared |-> FALSE,
   value |-> "small", track_result |-> TRUE, runs |-> 0]

Values == {"None", "small", "large", "object"}

\* The "OUTPUT" member of result_data: the result itself, a placeholder for a
\* large or non-serialisable result, None, or no member at all.
Output(call) ==
  IF call.track_result /\ call.value # "None"
  THEN CASE call.value = "small" -> "small"
         [] call.value = "large" -> "<Large result: type>"
         [] call.value = "object" -> "<type object>"
  ELSE IF call.track_result THEN "None" ELSE "absent"

\* A variant of ReturnValue that hands over what was logged.
ReturnValue_logged(call) == Output(call)

\* "return result": the wrapper returns what the wrapped function returned.
ReturnValue(call) == call.value

\* "self.level += 1; log_id = self.add_log(title, status='pending', ...)"
async_enter(s, call) ==
  add_log([s EXCEPT !.level = @ + 1], call.name, "pending", call.ctype,
          IF call.args THEN "input" ELSE "none")

\* A variant of async_return without the finally block.
async_return_keep_level(s, log_id, output) ==
  update_log_status(s, log_id, "success", output)

\* try-branch after the function returned, then the finally block.
async_return(s, log_id, output) ==
  LET s1 == update_log_status(s, log_id, "success", output)
  IN [s1 EXCEPT !.level = @ - 1]

async_except_no_update(s, log_id) ==
  [s EXCEPT !.level = @ - 1]

async_except_keep_type(s, log_id) ==
  LET s1 == update_log_status(s, log_id, "error", "error")
  IN [s1 EXCEPT !.level = @ - 1]

\* except-branch: update to error, force the content type, then the finally block.
async_except(s, log_id) ==
  LET s1 == update_log_status(s, log_id, "error", "error")
      o == FindLog(s1, log_id)
      s2 == IF o = 0 THEN s1 ELSE [s1 EXCEPT !.objs[o].ctype = "clickable"]
  IN [s2 EXCEPT !.level = @ - 1]

\* "if not optional: raise" / "return None"
Propagates_always(call) == TRUE

Propagates(call) == ~call.optional

sync_enter(s, call) ==
  add_log([s EXCEPT !.level = @ + 1], call.name, "pending", call.ctype,
          IF call.args THEN "input" ELSE "none")

sync_return(s, log_id, output) ==
  LET s1 == update_log_status(s, log_id, "success", output)
  IN [s1 EXCEPT !.level = @ - 1]

sync_except(s, log_id) ==
  LET s1 == update_log_status(s, log_id, "error", "error")
      o == FindLog(s1, log_id)
      s2 == IF o = 0 THEN s1 ELSE [s1 EXCEPT !.objs[o].ctype = "clickable"]
  IN [s2 EXCEPT !.level = @ - 1]

\* The wrapper of call c is entered in store s: W is the pair (store, calls).
EnterCall(W, c) ==
  LET s1 == async_enter(W.st, W.cs[c])
  IN IF W.cs[c].plain THEN [W EXCEPT !.cs[c].pc = "sleeping"] ELSE
     [st |-> s1,
      cs |-> [W.cs EXCEPT ![c].pc = "sleeping",
                          ![c].log_id = s1.current_id,
                          ![c].oid = Len(s1.objs),
                          ![c].before = W.st.level]]

\* The wrapped function of call c returned (ok) or raised (~ok): the wrapper
\* leaves, and with no suspension point in between its caller resumes.  A
\* caller that is itself an instrumented function (create_openai_client
\* around validate_api_key) returns at once, or is left by the exception.
RECURSIVE FinishCall(_, _, _)
FinishCall(W, c, ok) ==
  LET call == W.cs[c]
      s1 == IF call.plain THEN W.st
            ELSE IF ok THEN async_return(W.st, call.log_id, Output(call))
            ELSE async_except(W.st, call.log_id)
      up == ~ok /\ (call.plain \/ Propagates(call))
      W1 == [st |-> s1,
             cs |-> [W.cs EXCEPT ![c].pc = "done",
                                 ![c].result = IF ok THEN ReturnValue(call)
                                               ELSE IF up THEN "unset" ELSE "None",
                                 ![c].runs = @ + 1,
                                 ![c].raised = up,
                                 ![c].failed = ~ok,
                                 ![c].after = s1.level]]
  IN IF call.parent = 0 THEN W1 ELSE FinishCall(W1, call.parent, ~up)

SetW(W) == SetSt(W.st) /\ calls' = W.cs

Now == [st |-> St, cs |-> calls]

\* sync_wrapper around a plain function that returns (ok) or raises (~ok),
\* called in W: entry, time.sleep, the function, the update and the finally
\* block run without suspension.
SyncCall(W, call, ok) ==
  LET s1 == sync_enter(W.st, call)
      log_id == s1.current_id
      s2 == IF ok THEN sync_return(s1, log_id, Output(call)) ELSE sync_except(s1, log_id)
      up == ~ok /\ Propagates(call)
  IN [st |-> s2,
      cs |-> Append(W.cs, [call EXCEPT !.pc = "done", !.log_id = log_id,
                                     !.oid = Len(s1.objs), !.before = W.st.level,
                                     !.after = s2.level,
                                     !.result = IF ok THEN ReturnValue(call)
                                                ELSE IF up THEN "unset" ELSE "None",
                                     !.runs = 1,
                                     !.raised = up, !.failed = ~ok])]

\* async_wrapper around a coroutine function that returns (ok) or raises
\* (~ok), awaited in W with no other task running in between.
AsyncCall(W, call, ok) ==
  FinishCall(EnterCall([W EXCEPT !.cs = Append(@, call)], Len(W.cs) + 1), Len(W.cs) + 1, ok)

\* ---- steps of an instrumented call (any specification)

\* Configurations of the instrumented function that a function may await.
NestedCfg(call) ==
  IF call.nested = "validate_api_key"
  THEN {NewCall("validate_api_key", call.req, FALSE, "clickable", TRUE, "none",
                IF orch[call.req].key_ok THEN "ok" ELSE "fail", 0, 0)}
  ELSE IF call.nested = "_search_with_adjacent_chunks"
  THEN {[NewCall("_search_with_adjacent_chunks", call.req, FALSE, "clickable", TRUE, "none",
                 "either", 0, 0) EXCEPT !.value = "large"]}
  ELSE {NewCall("nested", call.req, FALSE, "clickable", TRUE, "none", "either", 0, 0)}

\* The wrapped function awaits a nested instrumented call, whose wrapper is
\* entered in the same step.
Nest(c) ==
  /\ calls[c].pc = "sleeping"
  /\ calls[c].nested # "none"
  /\ calls[c].req # 0 \/ calls[c].name = "search_documents" \/ Len(objs) < MaxEntries
  /\ \E cfg \in NestedCfg(calls[c]) :
       LET d == Len(calls) + 1
           cs1 == Append([calls EXCEPT ![c].pc = "awaiting"],
                         [cfg EXCEPT !.parent = c, !.depth = calls[c].depth + 1])
       IN SetW(EnterCall([st |-> St, cs |-> cs1], d))
  /\ UNCHANGED <<clears, app_vars, orch, out>>

\* three_second_test sleeps 3.0 s, sixty times the 0.05 s each wrapper sleeps
\* and with only local steps launched before the orchestrator waits for it:
\* its sleep elapses while the orchestrator waits for the side tasks, or
\* after the orchestrator has failed.
Elapsed(c) ==
  IF calls[c].due = 0 THEN TRUE
  ELSE orch[calls[c].req].phase >= calls[c].due \/ orch[calls[c].req].failed

\* The wrapped function returns.
Return(c) ==
  /\ calls[c].pc = "sleeping"
  /\ calls[c].nested = "none"
  /\ Elapsed(c)
  /\ calls[c].outcomes # "fail"
  /\ SetW(FinishCall(Now, c, TRUE))
  /\ UNCHANGED <<clears, app_vars, orch, out>>

\* The wrapped function raises.
Raise(c) ==
  /\ calls[c].pc = "sleeping"
  /\ calls[c].nested = "none"
  /\ calls[c].outcomes # "ok"
  /\ SetW(FinishCall(Now, c, FALSE))
  /\ UNCHANGED <<clears, app_vars, orch, out>>

CallNests == \E c \in 1..Len(calls) : Nest(c)

CallReturns == \E c \in 1..Len(calls) : Return(c)

CallRaises == \E c \in 1..Len(calls) : Raise(c)

\* ------------------------------------------------------------------ state
\* A request's orchestrator: an async generator, suspended at pc.
\*   key_ok: the api key of the request starts with "sk-";
\*   has_dev: the request carries a developer_message;
\*   phase: index of the current step group in Program;
\*   chunks, full_response: chunks taken from the model stream, tokens kept;
\*   failed: history, an exception reached the orchestrator.
IdleOrch == [kind |-> "none", pc |-> "idle", key_ok |-> TRUE, has_dev |-> TRUE,
             phase |-> 0, chunks |-> 0, full_response |-> <<>>, failed |-> FALSE]

\* The console of RAGHandler: the command being executed and where it is
\* suspended; current_adjacent is the command's local variable; before (the
\* value of config['adjacent_chunks'] when the command began), success (what
\* the last command returned) and ran are history.
IdleConsole == [pc |-> "idle", command |-> "none", current_adjacent |-> 0, call |-> 0,
                before |-> 1, success |-> TRUE, ran |-> 0]

Init ==
  /\ logs = <<>>
  /\ objs = <<>>
  /\ current_id = 0
  /\ level = 0
  /\ status_callback = 0
  /\ queues = [r \in Reqs |-> <<>>]
  /\ notified = <<>>
  /\ returned = <<>>
  /\ calls = <<>>
  /\ clears = 0
  /\ orch = [r \in Reqs |-> IdleOrch]
  /\ out = [r \in Reqs |-> <<>>]
  /\ handler_cache = << >>
  /\ loads = << >>
  /\ config = [adjacent_chunks |-> 1]
  /\ console = IdleConsole

\* clear() as seen by the calls that are open when it runs (history only).
MarkCleared(cs) ==
  [c \in 1..Len(cs) |-> IF cs[c].pc \in {"sleeping", "awaiting"}
                        THEN [cs[c] EXCEPT !.cleared = TRUE] ELSE cs[c]]

\* ------------------------------------------- the store's callers, directly
\* Spec: callers of the DebugLogger API together with instrumented calls
\* running as concurrent tasks.  The subscriber is registered once, before
\* the first entry, as the orchestrators do; entries are added directly the
\* way the orchestrators add theirs.

ApiClear ==
  /\ clears < MaxClears
  /\ SetSt(clear(St))
  /\ calls' = MarkCleared(calls)
  /\ clears' = clears + 1
  /\ UNCHANGED app_vars
  /\ UNCHANGED <<orch, out>>

ApiSetStatusCallback(q) ==
  /\ status_callback = 0
  /\ Len(objs) = 0
  /\ SetSt(set_status_callback(St, q))
  /\ UNCHANGED <<calls, clears, app_vars, orch, out>>

ApiAddLog ==
  /\ Len(objs) < MaxEntries
  /\ SetSt(add_log(St, "direct", "success", "clickable", "none"))
  /\ UNCHANGED <<calls, clears, app_vars, orch, out>>

ApiStartSection ==
  /\ Len(objs) < MaxEntries
  /\ SetSt(start_section(St, "section"))
  /\ UNCHANGED <<calls, clears, app_vars, orch, out>>

ApiEndSection ==
  /\ SetSt(end_section(St))
  /\ UNCHANGED <<calls, clears, app_vars, orch, out>>

\* Configurations of the instrumented functions started under Spec: a
\* required function around a nested one, a required one and an optional one
\* declared with content_type="inline".
EnvCfgs ==
  { [NewCall("outer", 0, FALSE, "clickable", TRUE, "any", "either", 0, 1)
       EXCEPT !.value = "large"],
    [NewCall("required", 0, FALSE, "inline", TRUE, "none", "either", 0, 1)
       EXCEPT !.value = "object"],
    [NewCall("optional", 0, TRUE, "inline", TRUE, "none", "either", 0, 1)
       EXCEPT !.value = "None"] }

TopLevel == {c \in 1..Len(calls) : calls[c].parent = 0}

\* A task created for an instrumented coroutine function f starts: the
\* wrapper runs up to "await asyncio.sleep(0.05)".
ApiLaunch ==
  /\ Len(objs) < MaxEntries
  /\ Cardinality(TopLevel) < MaxCalls
  /\ \E cfg \in EnvCfgs :
       SetW(EnterCall([st |-> St, cs |-> Append(calls, cfg)], Len(calls) + 1))
  /\ UNCHANGED <<clears, app_vars, orch, out>>

\* A call of a wrapper around a plain (non-coroutine) function: sync_wrapper
\* sleeps with time.sleep and so runs from entry to exit in one step.
ApiSyncCall ==
  /\ Len(objs) < MaxEntries
  /\ Cardinality(TopLevel) < MaxCalls
  /\ \E ok \in BOOLEAN :
       SetW(SyncCall(Now, [NewCall("sync", 0, FALSE, "inline", TRUE, "none", "either", 0, 1)
                             EXCEPT !.track_result = FALSE], ok))
  /\ UNCHANGED <<clears, app_vars, orch, out>>

Next ==
  \/ ApiClear
  \/ ApiSetStatusCallback(1)
  \/ ApiAddLog
  \/ ApiLaunch
  \/ ApiSyncCall
  \/ CallNests
  \/ CallReturns
  \/ CallRaises

Spec == Init /\ [][Next]_vars

\* A later request subscribes while calls of the earlier one are open:
\* setup_debug_streaming and the add_log that follows it without suspension.
ApiResubscribe ==
  /\ status_callback = 1
  /\ Len(objs) < MaxEntries
  /\ SetSt(add_log(set_status_callback([St EXCEPT !.queues[2] = << >>], 2),
                   "Processing Message", "success", "clickable", "user_message"))
  /\ UNCHANGED <<calls, clears, app_vars, orch, out>>

\* SpecSubs: Spec with a second subscriber replacing the first.
NextSubs ==
  \/ ApiClear
  \/ ApiSetStatusCallback(1)
  \/ ApiResubscribe
  \/ ApiAddLog
  \/ ApiLaunch
  \/ ApiSyncCall
  \/ CallNests
  \/ CallReturns
  \/ CallRaises

SpecSubs == Init /\ [][NextSubs]_vars

\* Spec with the section calls of the API as well.
NextSections ==
  \/ ApiClear
  \/ ApiSetStatusCallback(1)
  \/ ApiAddLog
  \/ ApiLaunch
  \/ ApiSyncCall
  \/ CallNests
  \/ CallReturns
  \/ CallRaises
  \/ ApiStartSection
  \/ ApiEndSection

SpecSections == Init /\ [][NextSections]_vars


\* ------------------------------------------------------------ orchestrators
\* The three generators that answer a chat request:
\*   "base": BaseChatHandler.process_chat, run by RAGHandler, whose
\*           process_user_message and enhance_messages are not decorated;
\*   "vibe": VibeCheckHandler.process_chat (features/01-vibe-check);
\*   "app" : chat / event_stream of api/app.py;
\*   "modular": VibeCheckHandler.process_chat of api/features/vibe_check,
\*           served by api/app_modular.py.

Phase(launch, wait, drains) == [launch |-> launch, wait |-> wait, drains |-> drains]

Step(name) == Phase(<<name>>, {name}, TRUE)

\* The step groups of a request in program order: the tasks created, the
\* tasks whose completion the loop waits for, and whether the orchestrator
\* drains while it waits (it does not when it awaits the call directly).
Program(o) ==
  IF o.kind = "base" THEN
    << Step("create_openai_client"), Step("process_user_message"),
       Step("prepare_base_messages"), Step("enhance_messages"), Step("call_openai") >>
  ELSE IF o.kind = "vibe" THEN
    << Phase(<<"three_second_test", "parallel_failure_test", "create_openai_client">>,
             {"create_openai_client"}, TRUE),
       Step("process_user_message") >>
    \o (IF o.has_dev THEN << >>
        ELSE << Phase(<<"get_system_prompt">>, {"get_system_prompt"}, FALSE) >>)
    \o << Step("prepare_base_messages"), Step("enhance_messages"),
          Phase(<< >>, {"three_second_test", "parallel_failure_test"}, TRUE),
          Step("call_openai") >>
  ELSE IF o.kind = "modular" THEN
    << Step("prepare_request"), Step("call_api") >>
  ELSE
    << Step("test_yellow_status"),
       Phase(<<"test_optional_data_source_1", "test_optional_data_source_2">>,
             {"test_optional_data_source_1", "test_optional_data_source_2"}, TRUE),
       Step("test_critical_function"), Step("prepare_api_request"),
       Step("call_openai_api") >>

\* The instrumented (or plain) coroutine functions the orchestrators run.
StepCfg(name, r) ==
  LET Req(args, outcomes) == NewCall(name, r, FALSE, "clickable", args, "none", outcomes, 0, 1)
      Opt(outcomes) == NewCall(name, r, TRUE, "clickable", FALSE, "none", outcomes, 0, 1)
  IN CASE name = "create_openai_client" ->
            [NewCall(name, r, FALSE, "clickable", TRUE, "validate_api_key", "ok", 0, 1)
               EXCEPT !.value = "object"]
       [] name \in {"process_user_message", "enhance_messages"} ->
            [Req(TRUE, "ok") EXCEPT !.plain = (orch[r].kind = "base")]
       [] name = "prepare_base_messages" -> [Req(TRUE, "ok") EXCEPT !.value = "large"]
       [] name \in {"prepare_api_request", "prepare_request"} -> Req(TRUE, "ok")
       [] name \in {"call_openai", "call_openai_api"} ->
            [Req(TRUE, "either") EXCEPT !.value = "object", !.track_result = FALSE]
       [] name = "call_api" ->
            [Req(FALSE, "either") EXCEPT !.value = "object", !.track_result = FALSE]
       [] name \in {"get_system_prompt", "test_yellow_status", "test_critical_function"} ->
            Req(FALSE, "ok")
       [] name = "three_second_test" ->
            [Req(FALSE, "ok") EXCEPT !.due = Len(Program(orch[r])) - 1]
       [] name = "parallel_failure_test" -> Opt("either")
       [] name = "test_optional_data_source_1" -> Opt("fail")
       [] name = "test_optional_data_source_2" -> Opt("ok")

\* asyncio.create_task for each function of the group; the tasks start in
\* creation order when the orchestrator suspends.
RECURSIVE LaunchAll(_, _, _)
LaunchAll(W, r, names) ==
  IF names = << >> THEN W
  ELSE LaunchAll(EnterCall([W EXCEPT !.cs = Append(@, StepCfg(Head(names), r))],
                           Len(W.cs) + 1),
                 r, Tail(names))

CallOf(r, name) == CHOOSE c \in 1..Len(calls) : calls[c].req = r /\ calls[c].name = name

CurPhase(r) == Program(orch[r])[orch[r].phase]

AllDone_any(r) == \E n \in CurPhase(r).wait : calls[CallOf(r, n)].pc = "done"

\* "task.done()" for every task the loop waits for.
AllDone(r) == \A n \in CurPhase(r).wait : calls[CallOf(r, n)].pc = "done"

AwaitRaises_swallowed(r) == FALSE

\* "x = await task": the exception of a failed task is raised in the orchestrator.
AwaitRaises(r) == \E n \in CurPhase(r).wait : calls[CallOf(r, n)].raised

\* The payloads of the records of the output stream.  oid is
\* history: the entry object a debug record was made from, and via whether
\* the entry was taken from the debug queue or read from get_logs().
DebugRec(s, o) ==
  [type |-> "debug", id |-> s.objs[o].id, status |-> s.objs[o].status,
   ctype |-> s.objs[o].ctype, data |-> s.objs[o].data, level |-> s.objs[o].level,
   title |-> s.objs[o].title, tok |-> 0, oid |-> o,
   via |-> "queue"]

\* A variant of the token record that names its type "content".
ChatRec_content(t) ==
  [type |-> "content", id |-> 0, status |-> "none", ctype |-> "none", data |-> "none",
   level |-> 0, title |-> "none", tok |-> t, oid |-> 0, via |-> "none"]

ChatRec(t) ==
  [type |-> "chat", id |-> 0, status |-> "none", ctype |-> "none", data |-> "none",
   level |-> 0, title |-> "none", tok |-> t, oid |-> 0, via |-> "none"]

ErrorRec ==
  [type |-> "error", id |-> 0, status |-> "none", ctype |-> "none", data |-> "str(e)",
   level |-> 0, title |-> "none", tok |-> 0, oid |-> 0, via |-> "none"]

\* {"type": "debug", "data": debug_logger.get_logs()[-1]}
LastLogRec(s) == [DebugRec(s, s.logs[Len(s.logs)]) EXCEPT !.via = "direct"]

\* A variant of sse_format that ends the record with a single newline.
sse_format_one_newline(data) ==
  [marker |-> "data: ", terminator |-> "\n"] @@ data

\* sse_format: f"data: {json.dumps(data)}\n\n". The text is held as its parts:
\* the marker, the members of the JSON object, and the terminator.
sse_format(data) ==
  [marker |-> "data: ", terminator |-> "\n\n"] @@ data

\* yield: the text is appended to the response stream of request r.
Yield(r, text) == out' = [out EXCEPT ![r] = Append(@, text)]

Last(q) == q[Len(q)]

\* setup_debug_streaming: a new queue, and the callback that feeds it.
setup_debug_streaming(s, r) ==
  set_status_callback([s EXCEPT !.queues[r] = << >>], r)

\* process_chat up to its first yield: clear, subscribe, log the message and
\* yield get_logs()[-1].  chat() of api/app.py only clears; its generator
\* starts when the response is iterated.
StartRequest(r, kinds, keys, devs) ==
  /\ \E kind \in kinds, key_ok \in keys, has_dev \in devs :
       /\ kind = "app" => key_ok
       /\ kind # "vibe" => has_dev
       /\ LET o == [IdleOrch EXCEPT !.kind = kind, !.key_ok = key_ok, !.has_dev = has_dev,
                                    !.phase = 1]
              s1 == clear(St)
              s2 == add_log(setup_debug_streaming(s1, r), "Processing Message",
                            "success", "clickable", "user_message")
          IN IF kind = "app"
             THEN /\ SetSt(s1)
                  /\ orch' = [orch EXCEPT ![r] = [o EXCEPT !.pc = "cleared"]]
                  /\ UNCHANGED out
             ELSE /\ SetSt(s2)
                  /\ orch' = [orch EXCEPT ![r] = [o EXCEPT !.pc = "launch"]]
                  /\ Yield(r, sse_format(LastLogRec(s2)))
  /\ calls' = MarkCleared(calls)
  /\ clears' = clears + 1
  /\ UNCHANGED app_vars

\* A request arrives while no other is being answered.
Begin(r) ==
  /\ \A q \in Reqs : orch[q].pc = "idle"
  /\ StartRequest(r, {"base", "vibe", "app"}, BOOLEAN, BOOLEAN)

\* event_stream of api/app.py up to its first yield.
AppStart(r) ==
  /\ orch[r].pc = "cleared"
  /\ LET s2 == add_log(setup_debug_streaming(St, r), "Processing User Message",
                       "success", "clickable", "user_message")
     IN /\ SetSt(s2)
        /\ Yield(r, sse_format(LastLogRec(s2)))
  /\ orch' = [orch EXCEPT ![r].pc = "launch"]
  /\ UNCHANGED <<calls, clears, app_vars>>

\* The tasks of the next group are created and the orchestrator suspends in
\* its wait loop (or in the call it awaits directly).
LaunchPhase(r) ==
  /\ orch[r].pc = "launch"
  /\ SetW(LaunchAll(Now, r, CurPhase(r).launch))
  /\ orch' = [orch EXCEPT ![r].pc = IF CurPhase(r).drains THEN "sleep" ELSE "blocked"]
  /\ UNCHANGED <<clears, app_vars, out>>

DrainPcs == {"drain", "fdrain", "hdrain", "cdrain"}

\* A variant of DrainNext that takes an entry from the queue and yields nothing.
DrainNext_no_yield(r) ==
  /\ orch[r].pc \in DrainPcs
  /\ queues[r] # << >>
  /\ queues' = [queues EXCEPT ![r] = Tail(@)]
  /\ UNCHANGED <<logs, objs, current_id, level, status_callback, notified, returned,
                 calls, clears, app_vars, orch, out>>

\* drain_debug_queue, one iteration: get_nowait and yield the entry as it is now.
DrainNext(r) ==
  /\ orch[r].pc \in DrainPcs
  /\ queues[r] # << >>
  /\ queues' = [queues EXCEPT ![r] = Tail(@)]
  /\ Yield(r, sse_format(DebugRec(St, Head(queues[r]))))
  /\ UNCHANGED <<logs, objs, current_id, level, status_callback, notified, returned,
                 calls, clears, app_vars, orch>>

\* "while not task.done()": the loop wakes from its sleep, the awaited tasks
\* are still running and the drain yields its first entry.
LoopDrain(r) ==
  /\ orch[r].pc = "sleep"
  /\ ~AllDone(r)
  /\ queues[r] # << >>
  /\ queues' = [queues EXCEPT ![r] = Tail(@)]
  /\ Yield(r, sse_format(DebugRec(St, Head(queues[r]))))
  /\ orch' = [orch EXCEPT ![r].pc = "drain"]
  /\ UNCHANGED <<logs, objs, current_id, level, status_callback, notified, returned,
                 calls, clears, app_vars>>

AfterPhase(o) ==
  IF o.phase < Len(Program(o)) THEN [o EXCEPT !.pc = "launch", !.phase = @ + 1]
  ELSE [o EXCEPT !.pc = "stream"]

\* A variant of LoopExit that goes on to the next step without the final drain.
LoopExit_no_final_drain(r) ==
  /\ orch[r].pc \in {"sleep", "blocked"}
  /\ AllDone(r)
  /\ ~AwaitRaises(r)
  /\ orch' = [orch EXCEPT ![r] = AfterPhase(@)]
  /\ UNCHANGED <<store_vars, calls, clears, app_vars, out>>

\* The loop finds the awaited tasks done and the awaits return their results.
LoopExit(r) ==
  /\ orch[r].pc \in {"sleep", "blocked"}
  /\ AllDone(r)
  /\ ~AwaitRaises(r)
  /\ orch' = [orch EXCEPT ![r] = IF CurPhase(r).drains THEN [@ EXCEPT !.pc = "fdrain"]
                                 ELSE AfterPhase(@)]
  /\ UNCHANGED <<store_vars, calls, clears, app_vars, out>>

\* The except clause of the orchestrator, up to its first suspension.
\* process_chat logs an entry with the default status; event_stream logs one
\* with status error and yields get_logs()[-1]; the process_chat of
\* api/features/vibe_check has no except clause and the exception ends it.
Handle(r) ==
  IF orch[r].kind = "modular"
  THEN /\ orch' = [orch EXCEPT ![r].pc = "aborted", ![r].failed = TRUE]
       /\ UNCHANGED <<store_vars, out>>
  ELSE IF orch[r].kind = "app"
  THEN LET s1 == add_log(St, "Error in Chat Processing", "error", "clickable", "error_data")
       IN /\ SetSt(s1)
          /\ Yield(r, sse_format(LastLogRec(s1)))
          /\ orch' = [orch EXCEPT ![r].pc = "herror", ![r].failed = TRUE]
  ELSE LET s1 == add_log(St, "Error", "success", "clickable", "error_data")
       IN /\ SetSt(s1)
          /\ orch' = [orch EXCEPT ![r].pc = "hdrain", ![r].failed = TRUE]
          /\ UNCHANGED out

\* The loop finds the awaited tasks done and an await raises.
LoopRaise(r) ==
  /\ orch[r].pc \in {"sleep", "blocked"}
  /\ AllDone(r)
  /\ AwaitRaises(r)
  /\ Handle(r)
  /\ UNCHANGED <<calls, clears, app_vars>>

\* A drain finds the queue empty.
DrainEmpty(r) ==
  /\ orch[r].pc \in DrainPcs
  /\ queues[r] = << >>
  /\ orch' = [orch EXCEPT ![r] =
                CASE @.pc = "drain" -> [@ EXCEPT !.pc = "sleep"]
                  [] @.pc = "fdrain" -> AfterPhase(@)
                  [] @.pc = "hdrain" -> [@ EXCEPT !.pc = "aborted"]
                  [] @.pc = "cdrain" -> [@ EXCEPT !.pc = "done"]]
  /\ UNCHANGED <<store_vars, calls, clears, app_vars, out>>

\* A variant of StreamChunk that drains the debug queue between two chunks.
StreamChunk_drains(r) ==
  /\ orch[r].pc = "stream"
  /\ IF queues[r] # << >>
     THEN /\ queues' = [queues EXCEPT ![r] = Tail(@)]
          /\ Yield(r, sse_format(DebugRec(St, Head(queues[r]))))
          /\ UNCHANGED <<logs, objs, current_id, level, status_callback, notified, returned,
                         calls, clears, app_vars, orch>>
     ELSE /\ orch[r].chunks < MaxChunks
          /\ \E content \in {0, orch[r].chunks + 1} :
               /\ orch' = [orch EXCEPT ![r].chunks = @ + 1,
                                       ![r].full_response =
                                          IF content = 0 THEN @ ELSE Append(@, content)]
               /\ IF content = 0 THEN UNCHANGED out
                  ELSE Yield(r, sse_format(ChatRec(content)))
          /\ UNCHANGED <<store_vars, calls, clears, app_vars>>

\* A variant of StreamChunk that yields the record of a token twice.
StreamChunk_twice(r) ==
  /\ orch[r].pc = "stream"
  /\ orch[r].chunks < MaxChunks
  /\ \E content \in {0, orch[r].chunks + 1} :
       /\ orch' = [orch EXCEPT ![r].chunks = @ + 1,
                               ![r].full_response = IF content = 0 THEN @ ELSE Append(@, content)]
       /\ IF content = 0 THEN UNCHANGED out
          ELSE out' = [out EXCEPT ![r] = @ \o << sse_format(ChatRec(content)),
                                                sse_format(ChatRec(content)) >>]
  /\ UNCHANGED <<store_vars, calls, clears, app_vars>>

\* The model stream delivers a chunk: a token, which is yielded as a chat
\* record, or a chunk whose delta.content is None.
StreamChunk(r) ==
  /\ orch[r].pc = "stream"
  /\ orch[r].chunks < MaxChunks
  /\ \E content \in {0, orch[r].chunks + 1} :
       /\ orch' = [orch EXCEPT ![r].chunks = @ + 1,
                               ![r].full_response = IF content = 0 THEN @ ELSE Append(@, content)]
       /\ IF content = 0 THEN UNCHANGED out ELSE Yield(r, sse_format(ChatRec(content)))
  /\ UNCHANGED <<store_vars, calls, clears, app_vars>>

\* The title of the entry logged when the model stream has ended.
CompletionTitle(o) ==
  IF o.kind = "modular" THEN "Vibe Check Complete" ELSE "Processing Complete"

StreamEnd_no_drain(r) ==
  /\ orch[r].pc = "stream"
  /\ SetSt(add_log(St, CompletionTitle(orch[r]), "success", "clickable", "full_response"))
  /\ orch' = [orch EXCEPT ![r].pc = "done"]
  /\ UNCHANGED <<calls, clears, app_vars, out>>

\* The model stream ends: the completion entry is logged and the last drain starts.
StreamEnd(r) ==
  /\ orch[r].pc = "stream"
  /\ SetSt(add_log(St, CompletionTitle(orch[r]), "success", "clickable", "full_response"))
  /\ orch' = [orch EXCEPT ![r].pc = "cdrain"]
  /\ UNCHANGED <<calls, clears, app_vars, out>>

\* Iterating the model stream raises.
StreamRaise(r) ==
  /\ orch[r].pc = "stream"
  /\ Handle(r)
  /\ UNCHANGED <<calls, clears, app_vars>>

\* event_stream's except clause after its first yield: the error record.
AppError(r) ==
  /\ orch[r].pc = "herror"
  /\ Yield(r, sse_format(ErrorRec))
  /\ orch' = [orch EXCEPT ![r].pc = "done"]
  /\ UNCHANGED <<store_vars, calls, clears, app_vars>>

\* SpecPipe: one request, answered by any of the three orchestrators.
NextPipe ==
  \/ Begin(1)
  \/ AppStart(1)
  \/ LaunchPhase(1)
  \/ LoopDrain(1)
  \/ LoopExit(1)
  \/ LoopRaise(1)
  \/ DrainNext(1)
  \/ DrainEmpty(1)
  \/ StreamChunk(1)
  \/ StreamEnd(1)
  \/ StreamRaise(1)
  \/ AppError(1)
  \/ CallNests
  \/ CallReturns
  \/ CallRaises

SpecPipe == Init /\ [][NextPipe]_vars

\* --------------------------------------------------- the modular application
\* VibeCheckHandler.process_chat of api/features/vibe_check up to its first
\* yield: a new queue and callback, the first entry, and get_logs()[-1].
\* A request arrives when no other is being answered.
StartModular(r) ==
  /\ orch[r].pc = "idle"
  /\ \A q \in Reqs : orch[q].pc \in {"idle", "done", "aborted"}
  /\ LET s2 == add_log(setup_debug_streaming(St, r), "Processing Vibe Check Message",
                       "success", "clickable", "user_message")
     IN /\ SetSt(s2)
        /\ Yield(r, sse_format(LastLogRec(s2)))
  /\ orch' = [orch EXCEPT ![r] = [IdleOrch EXCEPT !.kind = "modular", !.pc = "launch",
                                                  !.phase = 1]]
  /\ UNCHANGED <<calls, clears, app_vars>>

\* SpecModular: requests to api/app_modular.py, one after the other.
NextModular ==
  \/ \E r \in Reqs : StartModular(r)
  \/ \E r \in Reqs : LaunchPhase(r)
  \/ \E r \in Reqs : LoopDrain(r)
  \/ \E r \in Reqs : LoopExit(r)
  \/ \E r \in Reqs : LoopRaise(r)
  \/ \E r \in Reqs : DrainNext(r)
  \/ \E r \in Reqs : DrainEmpty(r)
  \/ \E r \in Reqs : StreamChunk(r)
  \/ \E r \in Reqs : StreamEnd(r)
  \/ \E r \in Reqs : StreamRaise(r)
  \/ CallReturns
  \/ CallRaises

SpecModular == Init /\ [][NextModular]_vars

\* ------------------------------------------------------ overlapping requests
\* SpecTwo: two requests to VibeCheckHandler.process_chat on the one
\* process-wide debug_logger, the second arriving while the first is being
\* answered or after its stream has ended with its side tasks still running.
\* Both carry an api key without "sk-", so each stream ends at its first step.
BeginFirst ==
  /\ \A q \in Reqs : orch[q].pc = "idle"
  /\ StartRequest(1, {"vibe"}, {FALSE}, {TRUE})

BeginSecond ==
  /\ orch[1].pc \in {"aborted", "done"}
  /\ orch[2].pc = "idle"
  /\ StartRequest(2, {"vibe"}, {FALSE}, {TRUE})

NextTwo ==
  \/ BeginFirst
  \/ BeginSecond
  \/ \E r \in Reqs : LaunchPhase(r)
  \/ \E r \in Reqs : LoopDrain(r)
  \/ \E r \in Reqs : LoopRaise(r)
  \/ \E r \in Reqs : DrainNext(r)
  \/ \E r \in Reqs : DrainEmpty(r)
  \/ CallNests
  \/ CallReturns
  \/ CallRaises

SpecTwo == Init /\ [][NextTwo]_vars

\* ------------------------------------------------------- a late side task
\* SpecLate: a request to VibeCheckHandler.process_chat with an api key
\* without "sk-" ends at its first step while its three_second_test, which
\* sleeps 3 s, is still running (parallel_failure_test, which does not sleep,
\* has ended: the error drain runs after its 0.05 s); a request to
\* BaseChatHandler.process_chat with a valid key follows on the same
\* debug_logger, and the side task of the first ends at any time during it.
BeginLate ==
  /\ orch[1].pc = "aborted"
  /\ orch[2].pc = "idle"
  /\ \A c \in 1..Len(calls) :
       calls[c].pc = (IF calls[c].name = "three_second_test" THEN "sleeping" ELSE "done")
  /\ StartRequest(2, {"base"}, {TRUE}, {TRUE})

NextLate ==
  \/ BeginFirst
  \/ BeginLate
  \/ \E r \in Reqs : LaunchPhase(r)
  \/ \E r \in Reqs : LoopDrain(r)
  \/ \E r \in Reqs : LoopExit(r)
  \/ \E r \in Reqs : LoopRaise(r)
  \/ \E r \in Reqs : DrainNext(r)
  \/ \E r \in Reqs : DrainEmpty(r)
  \/ \E r \in Reqs : StreamChunk(r)
  \/ \E r \in Reqs : StreamEnd(r)
  \/ \E r \in Reqs : StreamRaise(r)
  \/ CallNests
  \/ CallReturns
  \/ CallRaises

SpecLate == Init /\ [][NextLate]_vars

\* ------------------------------------------------------------ homework_app
\* HOMEWORK_FEATURES: the features the application knows, enabled or not.
HOMEWORK_FEATURES ==
  [f \in {"01-vibe-check", "02-embeddings-rag", "03-agents", "04-fine-tuning",
          "05-multimodal"} |->
     [enabled |-> f \in {"01-vibe-check", "02-embeddings-rag"}]]

\* The feature ids a request may carry.
FeatureIds == DOMAIN HOMEWORK_FEATURES \cup {"unknown"}

\* The handler instances created so far; an instance is known by its rank.
Created == Len(SelectSeq(loads, LAMBDA l : l.created))

\* A variant of load_homework_handler that does not look in the cache.
load_homework_handler_no_lookup(cache, feature_id, exists, imports) ==
  IF feature_id \notin DOMAIN HOMEWORK_FEATURES
  THEN [cache |-> cache, status |-> 404, instance |-> 0, created |-> FALSE]
  ELSE IF ~HOMEWORK_FEATURES[feature_id].enabled
  THEN [cache |-> cache, status |-> 501, instance |-> 0, created |-> FALSE]
  ELSE IF ~exists \/ ~imports
  THEN [cache |-> cache, status |-> 500, instance |-> 0, created |-> FALSE]
  ELSE [cache |-> (feature_id :> (Created + 1)) @@ cache, status |-> 200,
        instance |-> Created + 1, created |-> TRUE]

\* load_homework_handler: the cache it leaves and what it hands back - the
\* instance (status 200) or the HTTPException it raises.  exists says whether
\* handler.py is at the feature's path, imports whether the module executes,
\* has the handler class and the class can be instantiated.
load_homework_handler(cache, feature_id, exists, imports) ==
  IF feature_id \in DOMAIN cache
  THEN [cache |-> cache, status |-> 200, instance |-> cache[feature_id], created |-> FALSE]
  ELSE IF feature_id \notin DOMAIN HOMEWORK_FEATURES
  THEN [cache |-> cache, status |-> 404, instance |-> 0, created |-> FALSE]
  ELSE IF ~HOMEWORK_FEATURES[feature_id].enabled
  THEN [cache |-> cache, status |-> 501, instance |-> 0, created |-> FALSE]
  ELSE IF ~exists
  THEN [cache |-> cache, status |-> 500, instance |-> 0, created |-> FALSE]
  ELSE IF ~imports
  THEN [cache |-> cache, status |-> 500, instance |-> 0, created |-> FALSE]
  ELSE [cache |-> (feature_id :> (Created + 1)) @@ cache, status |-> 200,
        instance |-> Created + 1, created |-> TRUE]

\* An endpoint calls load_homework_handler for the feature of its request.
LoadHandler ==
  /\ Len(loads) < MaxLoads
  /\ \E feature_id \in FeatureIds, exists \in BOOLEAN, imports \in BOOLEAN :
       LET res == load_homework_handler(handler_cache, feature_id, exists, imports)
       IN /\ handler_cache' = res.cache
          /\ loads' = Append(loads, [feature_id |-> feature_id, status |-> res.status,
                                     instance |-> res.instance, created |-> res.created])
  /\ UNCHANGED <<store_vars, calls, clears, orch, out, config, console>>

NextHomework == LoadHandler

SpecHomework == Init /\ [][NextHomework]_vars

\* ------------------------------------------------- the console of RAGHandler
\* The console commands that read or write config['adjacent_chunks'], given
\* one at a time to one RAGHandler whose components are initialised.
CompareCommands == {"compare_scoring", "compare_all_methods"}

\* _handle_set_adjacent_chunks: n is the number in the command.
ConsoleSetAdjacent ==
  /\ console.pc = "idle"
  /\ console.ran < MaxCommands
  /\ \E n \in {0, 1, 2, 6} :
       LET ok == ~(n < 0 \/ n > 5)
       IN /\ config' = IF ok THEN [config EXCEPT !.adjacent_chunks = n] ELSE config
          /\ console' = [console EXCEPT !.command = "set_adjacent_chunks",
                                        !.before = config.adjacent_chunks,
                                        !.success = ok, !.ran = @ + 1]
  /\ UNCHANGED <<store_vars, calls, clears, orch, out, handler_cache, loads>>

\* search_documents(query, 'console-command', k=k) is awaited: its wrapper is
\* entered in store W.st.  With adjacent_chunks at 0 it answers by itself,
\* otherwise it awaits _search_with_adjacent_chunks.
SearchCfg(adjacent) ==
  [NewCall("search_documents", 0, FALSE, "clickable", TRUE,
           IF adjacent = 0 THEN "none" ELSE "_search_with_adjacent_chunks",
           "either", 0, 1) EXCEPT !.value = "large"]

\* _handle_compare_scoring and _handle_compare_all_methods up to their first
\* await: a command that does not match, or finds no vector database, returns
\* at once; otherwise the setting is kept in current_adjacent, forced to 0
\* and the first search begins.
ConsoleCompare ==
  /\ console.pc = "idle"
  /\ console.ran < MaxCommands
  /\ \E command \in CompareCommands, match \in BOOLEAN, vectors \in BOOLEAN :
       IF ~match \/ ~vectors
       THEN /\ console' = [console EXCEPT !.command = command,
                                          !.before = config.adjacent_chunks,
                                          !.success = match, !.ran = @ + 1]
            /\ UNCHANGED <<store_vars, calls, config>>
       ELSE /\ config' = [config EXCEPT !.adjacent_chunks = 0]
            /\ SetW(EnterCall([st |-> St, cs |-> Append(calls, SearchCfg(0))],
                              Len(calls) + 1))
            /\ console' = [console EXCEPT !.pc = "normal", !.command = command,
                                          !.current_adjacent = config.adjacent_chunks,
                                          !.before = config.adjacent_chunks,
                                          !.call = Len(calls) + 1, !.ran = @ + 1]
  /\ UNCHANGED <<clears, orch, out, handler_cache, loads>>

\* The first search returned: the setting is put back and the second search
\* begins.
CompareRestore ==
  /\ console.pc = "normal"
  /\ calls[console.call].pc = "done" /\ ~calls[console.call].raised
  /\ config' = [config EXCEPT !.adjacent_chunks = console.current_adjacent]
  /\ SetW(EnterCall([st |-> St, cs |-> Append(calls, SearchCfg(console.current_adjacent))],
                    Len(calls) + 1))
  /\ console' = [console EXCEPT !.pc = "adjacent", !.call = Len(calls) + 1]
  /\ UNCHANGED <<clears, orch, out, handler_cache, loads>>

\* A search raised: "except Exception as e: return {"success": False, ...}".
CompareFails ==
  /\ console.pc \in {"normal", "adjacent"}
  /\ calls[console.call].pc = "done" /\ calls[console.call].raised
  /\ console' = [console EXCEPT !.pc = "idle", !.success = FALSE]
  /\ UNCHANGED <<store_vars, calls, clears, orch, out, handler_cache, loads, config>>

\* The second search returned: the command formats its output and returns,
\* or fails in the search of the large chunks that compare_all_methods makes.
CompareEnds ==
  /\ console.pc = "adjacent"
  /\ calls[console.call].pc = "done" /\ ~calls[console.call].raised
  /\ \E ok \in {TRUE, console.command # "compare_all_methods"} :
       console' = [console EXCEPT !.pc = "idle", !.success = ok]
  /\ UNCHANGED <<store_vars, calls, clears, orch, out, handler_cache, loads, config>>

NextConsole ==
  \/ ConsoleSetAdjacent
  \/ ConsoleCompare
  \/ CompareRestore
  \/ CompareFails
  \/ CompareEnds
  \/ CallNests
  \/ CallReturns
  \/ CallRaises

SpecConsole == Init /\ [][NextConsole]_vars

\* ================================================================ claims
Done(c) == calls[c].pc = "done"
Entered(c) == calls[c].pc # "new"
CallIds == 1..Len(calls)
InLogs(o) == \E i \in 1..Len(logs) : logs[i] = o
NotesOf(o) == SelectSeq(notified, LAMBDA n : n.oid = o)

\* No call was open when clear() ran: every call so far ran within the
\* request that owned the store.
Owned == \A c \in CallIds : ~calls[c].cleared

\* C1: after clear() (or construction), the ids returned by the add_log calls
\* made so far, by any caller and in any interleaving with the wrappers'
\* update_log_status calls, are 1, 2, ..., N in call order.
C1_IdsSequential == \A i \in 1..Len(returned) : returned[i] = i

C1_Witness ==
  /\ clears > 0
  /\ Len(returned) >= 3
  /\ \E c \in CallIds : Done(c) /\ calls[c].log_id = 2 /\ ~calls[c].cleared
  /\ \E o \in 1..Len(objs) : InLogs(o) /\ objs[o].title = "direct" /\ objs[o].id = 3

\* C2: an optional instrumented call whose function raised (a) has one entry,
\* the only one of the log with its id, with status error and content type
\* clickable, (b) returned None and (c) did not raise to its caller.
C2_OptionalFailureContained ==
  \A c \in CallIds :
    (Done(c) /\ calls[c].optional /\ calls[c].failed) =>
       /\ calls[c].result = "None"
       /\ ~calls[c].raised
       /\ Owned =>
            /\ objs[calls[c].oid].status = "error"
            /\ objs[calls[c].oid].ctype = "clickable"
            /\ InLogs(calls[c].oid) =>
                 Cardinality({i \in 1..Len(logs) : objs[logs[i]].id = calls[c].log_id}) = 1

C2_Witness ==
  \E c \in CallIds :
    /\ Done(c) /\ calls[c].optional /\ calls[c].failed /\ calls[c].ctype = "inline"
    /\ Owned /\ InLogs(calls[c].oid) /\ Len(logs) >= 2
    /\ objs[calls[c].oid].ctype = "clickable"

\* C3: a required (optional=False) instrumented call whose function raised has
\* raised to its caller, and by then its entry has status error and the
\* registered subscriber has been handed that entry with status error.
C3_RequiredFailurePropagates ==
  \A c \in CallIds :
    (Done(c) /\ ~calls[c].optional /\ calls[c].failed) =>
       /\ calls[c].raised
       /\ Owned =>
            /\ objs[calls[c].oid].status = "error"
            /\ status_callback # 0 =>
                 \E k \in 1..Len(notified) :
                   notified[k].oid = calls[c].oid /\ notified[k].status = "error"

C3_Witness ==
  /\ status_callback # 0
  /\ Owned
  /\ \E c \in CallIds : Done(c) /\ calls[c].name = "nested" /\ calls[c].raised
                        /\ calls[calls[c].parent].raised
  /\ \E c \in CallIds : calls[c].name = "sync" /\ calls[c].raised

\* C4: with a subscriber registered, a required instrumented call that
\* completed normally caused exactly two notifications for its entry: the
\* first with status pending, the second with status success.
C4_PendingThenSuccess ==
  \A c \in CallIds :
    (Done(c) /\ ~calls[c].optional /\ ~calls[c].failed /\ status_callback # 0 /\ Owned) =>
       /\ Len(NotesOf(calls[c].oid)) = 2
       /\ NotesOf(calls[c].oid)[1].status = "pending"
       /\ NotesOf(calls[c].oid)[2].status = "success"

C4_Witness ==
  /\ status_callback # 0
  /\ Owned
  /\ \E c, d \in CallIds :
       /\ c # d /\ calls[c].parent = 0 /\ calls[d].parent = 0
       /\ Done(c) /\ ~calls[c].optional /\ ~calls[c].failed
       /\ Done(d) /\ calls[d].before = 1

\* C5: the level recorded on a call's entry is the number of open
\* instrumented calls enclosing the entry (its own call chain), and when the
\* call has left, the level is back at the value it had before the call.
C5_LevelIsNestingDepth ==
  \A c \in CallIds :
    Entered(c) =>
       /\ objs[calls[c].oid].level = calls[c].depth
       /\ Done(c) => calls[c].after = calls[c].before

\* C6: the nesting level is never negative.
C6_LevelNonNegative == level >= 0

\* C7: an entry in a terminal status is not mutated by any later operation.
C7_TerminalEntriesFrozen ==
  [][\A o \in 1..Len(objs) : objs[o].status \in Terminal => objs'[o] = objs[o]]_vars


\* ------------------------------------------------- claims about the pipeline
Ended(r) == orch[r].pc \in {"done", "aborted"}

\* A pipeline step of request r (a task the orchestrator created) has raised.
StepFailed(r) ==
  \E c \in CallIds : calls[c].req = r /\ calls[c].parent = 0 /\ calls[c].raised

Failed(r) == orch[r].failed \/ StepFailed(r)

RECURSIVE CountRecs(_, _, _)
CountRecs(q, type, status) ==
  IF q = << >> THEN 0
  ELSE (IF Head(q).type = type /\ Head(q).status = status THEN 1 ELSE 0)
       + CountRecs(Tail(q), type, status)

\* C8: when a non-optional pipeline step fails, every orchestrator ends its
\* stream normally, and the last two records of the stream are a trace entry
\* with status error summarising the failure and a record of type error.
C8_FailureEndsWithErrorRecord ==
  \A r \in Reqs :
    (Ended(r) /\ StepFailed(r)) =>
      /\ orch[r].pc = "done"
      /\ Len(out[r]) >= 2
      /\ Last(out[r]).type = "error"
      /\ out[r][Len(out[r]) - 1].type = "debug"
      /\ out[r][Len(out[r]) - 1].status = "error"
      /\ out[r][Len(out[r]) - 1].title \in {"Error", "Error in Chat Processing"}

\* C9: when a non-optional instrumented step has failed, the finished output
\* stream of the request holds exactly one debug record with status error.
C9_ExactlyOneErrorRecord ==
  \A r \in Reqs :
    (Ended(r) /\ StepFailed(r)) => CountRecs(out[r], "debug", "error") = 1

\* C10: once a non-optional step of a request has failed (or the model stream
\* has raised), no step takes the request's orchestrator to a further launch,
\* no chat record is added to its stream, and the records already in the
\* stream stay as they are.
C10_NothingAfterFailure ==
  [][\A r \in Reqs :
       /\ Len(out'[r]) >= Len(out[r])
       /\ SubSeq(out'[r], 1, Len(out[r])) = out[r]
       /\ Failed(r) =>
            /\ Len(calls') = Len(calls)
            /\ orch'[r].pc \notin {"launch", "stream"} \/ orch'[r].pc = orch[r].pc
            /\ CountRecs(out'[r], "chat", "none") = CountRecs(out[r], "chat", "none")]_vars

\* C10 witness: a request has ended after one of its steps raised, and one
\* whose model stream raised ended with its chat record still in the stream.
C10_Witness ==
  \E r \in Reqs :
    /\ Ended(r)
    /\ orch[r].failed
    /\ StepFailed(r) \/ CountRecs(out[r], "chat", "none") > 0

\* The notifications handed to request r's subscriber that no drain has taken
\* from its queue yet: the queue holds one element per notification, in order.
NotesFor(r) == SelectSeq(notified, LAMBDA n : n.sub = r)

Undrained(r) ==
  SubSeq(NotesFor(r), Len(NotesFor(r)) - Len(queues[r]) + 1, Len(NotesFor(r)))

\* C11: when the orchestrator of a request takes up the model stream, and
\* when it has ended, every success or error notification handed to the
\* request's subscriber has been written to its output stream.
C11_TerminalNotificationsFlushed ==
  \A r \in Reqs :
    (orch[r].pc = "stream" \/ Ended(r)) =>
      \A i \in 1..Len(Undrained(r)) : Undrained(r)[i].status \notin Terminal

\* The entry objects created by the instrumented calls of request r.
EntriesOf(r) == {calls[c].oid : c \in {d \in CallIds : calls[d].req = r /\ Entered(d)}}

\* C12: requests arrive in the order 1, 2.  Once request 2 has called
\* clear(), (a) no step of an instrumented call of request 1 changes the log
\* list or an entry of it, (b) no record of request 2's output stream shows an
\* entry created by a call of request 1, and (c) no record of request 1's
\* output stream shows an entry created by a call of request 2.
C12_StoreOwnedByCurrentRequest ==
  /\ [][(/\ orch[2].pc # "idle"
         /\ \E c \in CallIds : calls[c].req = 1 /\ calls'[c] # calls[c])
        => /\ logs' = logs
           /\ \A i \in 1..Len(logs) : objs'[logs[i]] = objs[logs[i]]]_vars
  /\ [](\A i \in 1..Len(out[2]) : out[2][i].oid \notin EntriesOf(1))
  /\ [](\A i \in 1..Len(out[1]) : out[1][i].oid \notin EntriesOf(2))

\* C13: in a request's output stream, every debug record that shows the entry
\* of an instrumented call with status success or error comes after a debug
\* record that shows the same id with status pending.
C13_PendingBeforeTerminal ==
  \A r \in Reqs : \A i \in 1..Len(out[r]) :
    (out[r][i].oid \in EntriesOf(r) /\ out[r][i].status \in Terminal) =>
      \E j \in 1..(i - 1) :
        /\ out[r][j].type = "debug"
        /\ out[r][j].id = out[r][i].id
        /\ out[r][j].status = "pending"

\* The records of request r's output stream that a drain took from its queue.
Drained(r) == SelectSeq(out[r], LAMBDA x : x.type = "debug" /\ x.via = "queue")

\* C14: the records drained into a request's output stream follow the order
\* of the notifications to its subscriber, whatever the launch order: the
\* k-th drained record shows the entry of the k-th notification, and shows a
\* success or error notification with that status.  So the error record of
\* a call that failed first precedes the success record of one that
\* finished later.
C14_RecordsInNotificationOrder ==
  \A r \in Reqs :
    /\ Len(Drained(r)) = Len(NotesFor(r)) - Len(queues[r])
    /\ \A k \in 1..Len(Drained(r)) :
         /\ Drained(r)[k].oid = NotesFor(r)[k].oid
         /\ NotesFor(r)[k].status \in Terminal =>
              Drained(r)[k].status = NotesFor(r)[k].status

\* C14 witness: three_second_test (required) was launched before
\* parallel_failure_test (optional); the latter failed first, and its error
\* record is in the stream before the success record of the former.
C14_Witness ==
  \E a, b \in CallIds : \E i, j \in 1..Len(Drained(1)) :
    /\ a < b /\ calls[a].req = 1 /\ calls[b].req = 1
    /\ ~calls[a].optional /\ calls[a].result = calls[a].value
    /\ calls[b].optional /\ calls[b].failed
    /\ i < j
    /\ Drained(1)[i].oid = calls[b].oid /\ Drained(1)[i].status = "error"
    /\ Drained(1)[j].oid = calls[a].oid /\ Drained(1)[j].status = "success"
    /\ \A k \in 1..Len(Drained(1)) :
         Drained(1)[k].oid = calls[a].oid /\ k < i => Drained(1)[k].status = "pending"

\* The side investigations (tasks run beside the main steps) and the model calls.
SideNames == {"three_second_test", "parallel_failure_test",
              "test_optional_data_source_1", "test_optional_data_source_2"}

ModelCalls == {"call_openai", "call_openai_api"}

CallsOf(r, names) == {c \in CallIds : calls[c].req = r /\ calls[c].name \in names}

\* C15: (a) when the model call of a request has been launched, all its side
\* investigations are complete and have not raised into the orchestrator, a
\* failed optional one having returned None; (b) an orchestrator that failed
\* before launching its model call did so because a required step raised,
\* never because of an optional side investigation.
C15_SideTasksBeforeModelCall ==
  \A r \in Reqs :
    /\ CallsOf(r, ModelCalls) # {} =>
         \A d \in CallsOf(r, SideNames) :
           /\ Done(d)
           /\ ~calls[d].raised
           /\ calls[d].failed => calls[d].optional /\ calls[d].result = "None"
    /\ (orch[r].failed /\ CallsOf(r, ModelCalls) = {}) =>
         \E c \in CallIds : calls[c].req = r /\ ~calls[c].optional /\ calls[c].raised

\* C15 witness: the model call was launched after an optional side
\* investigation had failed.
C15_Witness ==
  \E r \in Reqs :
    /\ CallsOf(r, ModelCalls) # {}
    /\ orch[r].kind = "vibe"
    /\ \E d \in CallsOf(r, SideNames) : calls[d].failed /\ calls[d].result = "None"

RECURSIVE CountTitle(_, _)
CountTitle(q, title) ==
  IF q = << >> THEN 0
  ELSE (IF Head(q).title = title THEN 1 ELSE 0) + CountTitle(Tail(q), title)

\* C16: a request that completed normally has its completion entry, with
\* status success and the response as content, exactly once in its stream, as
\* the last record, hence after every chat record; the stream holds one chat
\* record per token of the response.
C16_CompletionEntryLast ==
  \A r \in Reqs :
    (orch[r].pc = "done" /\ ~orch[r].failed) =>
      /\ out[r] # << >>
      /\ Last(out[r]).type = "debug"
      /\ Last(out[r]).title = "Processing Complete"
      /\ Last(out[r]).status = "success"
      /\ Last(out[r]).data = "full_response"
      /\ CountTitle(out[r], "Processing Complete") = 1
      /\ CountRecs(out[r], "chat", "none") = Len(orch[r].full_response)

\* C16 witness: a request completed normally after streaming two tokens.
C16_Witness ==
  \E r \in Reqs :
    /\ orch[r].pc = "done" /\ ~orch[r].failed
    /\ CountRecs(out[r], "chat", "none") = 2

\* The tokens of the chat records of a stream, in stream order.
RECURSIVE TokensOf(_)
TokensOf(q) ==
  IF q = << >> THEN << >>
  ELSE (IF Head(q).type = "chat" THEN << Head(q).tok >> ELSE << >>) \o TokensOf(Tail(q))

\* C17 as stated: every record of every response stream has a type among
\* debug, content and error, and each token is carried by a record of type
\* content.
C17_TypesDebugContentError ==
  \A r \in Reqs : \A i \in DOMAIN out[r] :
    /\ out[r][i].type \in {"debug", "content", "error"}
    /\ out[r][i].tok # 0 => out[r][i].type = "content"

\* C17, amended: every record of every response stream has a type among
\* debug, chat and error; a debug record carries an entry of the store, a chat
\* record carries one token and no entry, an error record carries the failure
\* description of a failed request; and the chat records of a stream carry
\* exactly the tokens of the response, in order.
C17_TypesDebugChatError ==
  \A r \in Reqs :
    /\ \A i \in DOMAIN out[r] :
         LET x == out[r][i] IN
           /\ x.type \in {"debug", "chat", "error"}
           /\ x.type = "debug" =>
                x.oid # 0 /\ x.id >= 1 /\ x.status \in Statuses /\ x.tok = 0
           /\ x.type = "chat" => x.tok \in 1..MaxChunks /\ x.oid = 0 /\ x.id = 0
           /\ x.type = "error" =>
                x.data = "str(e)" /\ x.oid = 0 /\ x.tok = 0 /\ orch[r].failed
    /\ TokensOf(out[r]) = orch[r].full_response

\* C17 witness: one stream holds a trace record, a token record and an error
\* record.
C17_Witness ==
  \E r \in Reqs :
    \A t \in {"debug", "chat", "error"} : \E i \in DOMAIN out[r] : out[r][i].type = t

\* C18: every record of every response stream is a text that sse_format
\* produced: it begins with the marker 'data: ', ends with the blank line
\* '\n\n', and carries a JSON object with a type between the two.
C18_RecordsFramed ==
  \A r \in Reqs : \A i \in DOMAIN out[r] :
    /\ DOMAIN sse_format(ChatRec(1)) = DOMAIN out[r][i]
    /\ out[r][i].marker = "data: "
    /\ out[r][i].terminator = "\n\n"
    /\ out[r][i].type \in {"debug", "chat", "error"}

\* C18 witness: a stream holds framed records of all three types.
C18_Witness ==
  \E r \in Reqs :
    /\ orch[r].pc = "done"
    /\ \E i, j, k \in DOMAIN out[r] :
         /\ out[r][i].type = "debug" /\ out[r][i].terminator = "\n\n"
         /\ out[r][j].type = "chat" /\ out[r][j].marker = "data: "
         /\ out[r][k].type = "error" /\ out[r][k].marker = "data: "

\* The instrumented calls whose wrapper leaves in the step, each calling
\* update_log_status with its log_id.
Leaving ==
  {c \in CallIds : ~calls[c].plain /\ calls[c].pc # "done" /\ calls'[c].pc = "done"}

\* C19: update_log_status with an id that no entry of the store has returns
\* the store as it was, for every status and data: no entry changed or added,
\* no notification.  And when the wrappers that leave in a step all hold an id
\* no entry has (clear() ran while they were open), the step changes no
\* entry, adds none, notifies nobody and puts nothing in a queue.
C19_UnknownIdNoOp ==
  /\ [](\A log_id \in 0..(MaxEntries + 1) : \A status \in Statuses : \A data \in {"none", "result"} :
          FindLog(St, log_id) = 0 => update_log_status(St, log_id, status, data) = St)
  /\ [][(Leaving # {} /\ \A c \in Leaving : FindLog(St, calls[c].log_id) = 0) =>
          /\ objs' = objs /\ logs' = logs /\ returned' = returned
          /\ notified' = notified /\ queues' = queues]_vars

\* C19 witness: with a subscriber registered, a call left after clear() had
\* removed its entry and before any entry took its id: its own entry is still
\* pending and was notified once.
C19_Witness ==
  /\ status_callback # 0
  /\ \E c \in CallIds :
       /\ Done(c) /\ ~calls[c].plain /\ calls[c].cleared
       /\ \A i \in 1..Len(logs) : objs[logs[i]].id # calls[c].log_id
       /\ objs[calls[c].oid].status = "pending"
       /\ Len(NotesOf(calls[c].oid)) = 1
       /\ Len(logs) > 0

\* C20: a step that runs clear() leaves the store with no entry, the id counter
\* at 0 and the level at 0, and leaves the subscriber, its queues and the
\* notifications made so far as they were; an add_log right after it would
\* return id 1, and the first add_log after it did return id 1.
C20_ClearResets ==
  /\ [][clears' # clears =>
          /\ logs' = << >> /\ current_id' = 0 /\ level' = 0
          /\ status_callback' = status_callback
          /\ queues' = queues /\ notified' = notified
          /\ add_log(clear(St), "direct", "success", "clickable", "none").current_id = 1]_vars
  /\ []((clears > 0 /\ returned # << >>) => returned[1] = 1)

\* C20 witness: clear() ran with a subscriber registered while a call was open
\* (entries in the store, level above 0), and an entry was added afterwards.
C20_Witness ==
  /\ clears > 0
  /\ status_callback # 0
  /\ \E c \in CallIds : calls[c].cleared /\ calls[c].before = 0 /\ calls[c].log_id >= 2
  /\ returned # << >>
  /\ \E i \in 1..Len(logs) : objs[logs[i]].id = 1

\* ------------------------------------------------ claims, third group
\* C21: the first record of every response stream is a debug record whose
\* entry has id 1: the store was cleared before the request's first entry.
C21_FirstRecordHasIdOne ==
  \A r \in Reqs : out[r] # << >> => (out[r][1].type = "debug" /\ out[r][1].id = 1)

\* The wrappers that leave in the step and whose update_log_status finds an
\* entry with their log_id.
Updating ==
  {c \in 1..Len(calls') :
     /\ ~calls'[c].plain /\ calls'[c].pc = "done"
     /\ (IF c > Len(calls) THEN TRUE ELSE calls[c].pc # "done")
     /\ \E i \in 1..Len(logs') : objs'[logs'[i]].id = calls'[c].log_id}

\* C22: there is one subscriber at a time.  In every step the callback is
\* invoked once per entry added and once per update_log_status that found its
\* entry, every invocation goes to the subscriber registered last, whose queue
\* receives exactly these events, and no other subscriber's queue changes; the
\* entry added right after set_status_callback(2) was delivered to 2.
C22_SubscriberReplaced ==
  /\ [][status_callback' # 0 =>
          LET new == (Len(notified) + 1)..Len(notified')
              kept == IF status_callback' = status_callback
                      THEN queues[status_callback'] ELSE << >>
          IN /\ Len(notified') >= Len(notified)
             /\ SubSeq(notified', 1, Len(notified)) = notified
             /\ \A i \in new : notified'[i].sub = status_callback'
             /\ Cardinality(new) = (Len(objs') - Len(objs)) + Cardinality(Updating)
             /\ queues'[status_callback'] =
                  kept \o [i \in 1..Cardinality(new) |-> notified'[Len(notified) + i].oid]
             /\ \A q \in Reqs \ {status_callback'} : queues'[q] = queues[q]]_vars
  /\ [](\A i \in 1..Len(notified) :
          objs[notified[i].oid].title = "Processing Message" => notified[i].sub = 2)

\* C22 witness: a call entered under subscriber 1 and left under subscriber 2:
\* its pending event went to 1, its terminal event to 2.
C22_Witness ==
  /\ status_callback = 2
  /\ \E c \in CallIds :
       /\ Done(c) /\ ~calls[c].plain
       /\ Len(NotesOf(calls[c].oid)) = 2
       /\ NotesOf(calls[c].oid)[1].sub = 1 /\ NotesOf(calls[c].oid)[1].status = "pending"
       /\ NotesOf(calls[c].oid)[2].sub = 2 /\ NotesOf(calls[c].oid)[2].status \in Terminal

\* C23 as stated: the queue of a request being answered is bounded: it has a
\* capacity, and never holds more events than that.
C23_QueueBounded ==
  \A r \in Reqs :
    orch[r].pc # "idle" => (maxsize > 0 /\ Len(queues[r]) <= maxsize)

\* C23, amended: the queue of a request is unbounded and never full; the
\* callback, invoked for any entry in any reachable store, returns at once
\* with the entry appended to the subscriber's queue and the store's entries,
\* counter and level as they were; no event is dropped: the events handed
\* to a request's subscriber are those drained into its stream followed by
\* those still in its queue.
C23_EnqueueNeverDrops ==
  /\ \A r \in Reqs : ~full(queues[r])
  /\ \A o \in 1..Len(objs) :
       LET t == InvokeCallback(St, o) IN
         /\ t.objs = objs /\ t.logs = logs /\ t.current_id = current_id /\ t.level = level
         /\ t.status_callback = status_callback
         /\ status_callback # 0 =>
              /\ t.queues[status_callback] = Append(queues[status_callback], o)
              /\ \A q \in Reqs \ {status_callback} : t.queues[q] = queues[q]
  /\ \A r \in Reqs :
       /\ Len(NotesFor(r)) = Len(Drained(r)) + Len(queues[r])
       /\ \A k \in 1..Len(queues[r]) :
            queues[r][k] = NotesFor(r)[Len(Drained(r)) + k].oid

\* C23 witness: the queue of a request holds four events at once while one
\* of its calls has finished.
C23_Witness ==
  \E r \in Reqs :
    /\ Len(queues[r]) >= 4
    /\ \E c \in CallIds : calls[c].req = r /\ Done(c)

\* The orchestrator of request r is inside drain_debug_queue, suspended at
\* the yield of a record.
Draining(r) == orch[r].pc \in DrainPcs

\* C24 as stated: a drain that finds k entries produces exactly k records:
\* from its first record to its return the queue only loses entries, one for
\* each record, and a drain of an empty queue produces none.
C24_DrainProducesWhatItFound ==
  [][\A r \in Reqs :
       (Draining(r) /\ orch'[r].pc \in DrainPcs) => Len(queues'[r]) <= Len(queues[r])]_vars

\* C24, amended: a drain produces one debug record for every entry it takes
\* from the queue, in queue order, and takes entries - those enqueued while
\* it is suspended at a yield included - until the queue is empty; it returns
\* only then, with nothing more produced.  A drain that finds the queue empty
\* can return at once and produces nothing.
C24_DrainUntilEmpty ==
  /\ [][\A r \in Reqs :
          /\ (orch'[r].pc \in DrainPcs /\ orch[r].pc \in DrainPcs \cup {"sleep"}
                 /\ (out'[r] # out[r] \/ Len(queues'[r]) < Len(queues[r]))) =>
                /\ queues[r] # << >>
                /\ queues'[r] = Tail(queues[r])
                /\ out'[r] = Append(out[r], sse_format(DebugRec(St, Head(queues[r]))))
          /\ (Draining(r) /\ orch'[r].pc \notin DrainPcs) =>
                /\ queues[r] = << >> /\ queues'[r] = << >>
                /\ out'[r] = out[r]]_vars
  /\ [](\A r \in Reqs : (Draining(r) /\ queues[r] = << >>) => ENABLED DrainEmpty(r))

\* C24 witness: a final drain is about to return with the queue empty after
\* three records were drained into the stream.
C24_Witness ==
  \E r \in Reqs :
    /\ orch[r].pc = "fdrain" /\ queues[r] = << >>
    /\ Len(Drained(r)) >= 3

\* The configurations of debug_track: optional, content_type, track_args.
TrackCfgs ==
  { NewCall("f", 0, optional, ctype, args, "none", "either", 0, 1) :
      optional \in BOOLEAN, ctype \in {"clickable", "inline"}, args \in BOOLEAN }

\* C25: in every reachable store, for every configuration of debug_track and
\* either outcome of the wrapped function, sync_wrapper and async_wrapper
\* (run without another task in between) leave the same store - entries,
\* counter, level, queues and the sequence of notifications - after their
\* entry part and after the whole call, and hand the same result to the
\* caller: the value, None, or the exception.
C25_SyncAsyncEquivalent ==
  \A call \in TrackCfgs : \A ok \in BOOLEAN :
    LET a == AsyncCall(Now, call, ok)
        b == SyncCall(Now, call, ok)
        n == Len(calls) + 1
    IN /\ async_enter(St, call) = sync_enter(St, call)
       /\ a.st = b.st
       /\ Len(a.cs) = n /\ Len(b.cs) = n
       /\ a.cs[n] = b.cs[n]

\* C25 witness: a call through sync_wrapper and a call through async_wrapper,
\* both declared inline and both left by an exception, have both been made
\* with a subscriber registered; their entries ended alike.
C25_Witness ==
  /\ status_callback # 0
  /\ \E c, d \in CallIds :
       /\ calls[c].name = "sync" /\ calls[d].name = "required"
       /\ Done(c) /\ Done(d) /\ calls[c].raised /\ calls[d].raised
       /\ ~calls[c].cleared /\ ~calls[d].cleared
       /\ objs[calls[c].oid].status = "error" /\ objs[calls[d].oid].status = "error"
       /\ objs[calls[c].oid].ctype = objs[calls[d].oid].ctype
       /\ objs[calls[c].oid].data = objs[calls[d].oid].data

\* Every configuration of debug_track with every kind of result.
ResultCfgs ==
  { [call EXCEPT !.value = v, !.track_result = t] :
      call \in TrackCfgs, v \in Values, t \in BOOLEAN }

\* C26: a wrapper left through its try-branch hands over the value the
\* wrapped function returned, whatever was logged for it, and the function
\* of a call ran once when the wrapper has left and not at all before.  This
\* holds of the calls made and, in every reachable store, of a call with any
\* configuration and any kind of result, through either wrapper; the logged
\* output is the result, a placeholder, None or absent as the configuration
\* says.
C26_ReturnsOriginalResult ==
  /\ \A c \in CallIds :
       /\ calls[c].runs = (IF Done(c) THEN 1 ELSE 0)
       /\ (Done(c) /\ ~calls[c].failed) => calls[c].result = calls[c].value
  /\ \A call \in ResultCfgs :
       LET a == AsyncCall(Now, call, TRUE)
           b == SyncCall(Now, call, TRUE)
           n == Len(calls) + 1
       IN /\ a.cs[n].result = call.value /\ b.cs[n].result = call.value
          /\ a.cs[n].runs = 1 /\ b.cs[n].runs = 1
          /\ ~a.cs[n].raised /\ ~b.cs[n].raised
          /\ a.st.objs[a.cs[n].oid].status = "success"
          /\ a.st.objs[a.cs[n].oid].data = Output(call)
          /\ b.st.objs[b.cs[n].oid].data = Output(call)
          /\ Output(call) = call.value <=>
               (call.track_result /\ call.value \in {"small", "None"})

\* C26 witness: a call declared with track_result=False returned its value
\* with no output logged, and a call whose result json.dumps rejects returned
\* it with a placeholder logged.
C26_Witness ==
  \E c, d \in CallIds :
    /\ Done(c) /\ ~calls[c].failed /\ ~calls[c].track_result /\ ~calls[c].cleared
    /\ calls[c].result = "small" /\ objs[calls[c].oid].data = "absent"
    /\ Done(d) /\ ~calls[d].failed /\ ~calls[d].cleared
    /\ calls[d].result = "object" /\ objs[calls[d].oid].data = "<type object>"

\* The pipeline steps of BaseChatHandler.process_chat and of
\* VibeCheckHandler.process_chat that are function calls, in program order.
PipelineSteps ==
  << "create_openai_client", "process_user_message", "prepare_base_messages",
     "enhance_messages", "call_openai" >>

Launched(r, name) == CallsOf(r, {name}) # {}

\* C27: in a request answered by process_chat, no step is launched twice; a
\* step is launched only when the step before it has returned and none of the
\* events of that step is left in the queue (the drain after it has run); the
\* model stream is read only after the model call has returned; and the
\* completion entry is added only after the stream has been read.
C27_StepsInFixedOrder ==
  \A r \in Reqs :
    orch[r].kind \in {"base", "vibe"} =>
      /\ \A k \in 1..Len(PipelineSteps) :
           Cardinality(CallsOf(r, {PipelineSteps[k]})) <= 1
      /\ \A k \in 1..(Len(PipelineSteps) - 1) :
           Launched(r, PipelineSteps[k + 1]) =>
             /\ Launched(r, PipelineSteps[k])
             /\ \A c \in CallsOf(r, {PipelineSteps[k]}) :
                  /\ Done(c) /\ ~calls[c].failed
                  /\ \A i \in 1..Len(queues[r]) : queues[r][i] # calls[c].oid
      /\ (orch[r].pc \in {"stream", "cdrain", "done"} \/ CountRecs(out[r], "chat", "none") > 0) =>
           /\ Launched(r, "call_openai")
           /\ \A c \in CallsOf(r, {"call_openai"}) :
                /\ Done(c) /\ ~calls[c].failed
                /\ \A i \in 1..Len(queues[r]) : queues[r][i] # calls[c].oid
      /\ (\E i \in 1..Len(logs) : objs[logs[i]].title = "Processing Complete") =>
           /\ orch[r].pc \in {"cdrain", "done"}
           /\ orch[r].chunks <= MaxChunks
           /\ CountRecs(out[r], "chat", "none") = Len(orch[r].full_response)

\* C27 witness: a request answered by VibeCheckHandler.process_chat went
\* through all its steps and two tokens to the end of its stream.
C27_Witness ==
  \E r \in Reqs :
    /\ orch[r].kind = "vibe" /\ orch[r].pc = "done" /\ ~orch[r].failed
    /\ \A k \in 1..Len(PipelineSteps) : Launched(r, PipelineSteps[k])
    /\ Len(orch[r].full_response) = 2

\* C28: the k-th chunk of the model stream either carries no content and
\* leaves stream and response as they were, or carries token k, which is
\* appended as one chat record to the stream and to the response.  No step
\* removes or reorders the tokens already in the stream; so the tokens of the
\* stream are in production order without repetition, and the response that
\* the completion entry records is the sequence of the tokens streamed.
C28_TokensInStreamOrder ==
  /\ [][\A r \in Reqs :
          /\ orch'[r].chunks # orch[r].chunks =>
                /\ orch'[r].chunks = orch[r].chunks + 1
                /\ \/ /\ out'[r] = out[r]
                      /\ orch'[r].full_response = orch[r].full_response
                   \/ /\ out'[r] = Append(out[r], sse_format(ChatRec(orch'[r].chunks)))
                      /\ orch'[r].full_response =
                           Append(orch[r].full_response, orch'[r].chunks)
          /\ (orch[r].pc # "idle" /\ orch'[r].chunks = orch[r].chunks) =>
                TokensOf(out'[r]) = TokensOf(out[r])]_vars
  /\ [](\A r \in Reqs :
          /\ TokensOf(out[r]) = orch[r].full_response
          /\ \A i, j \in 1..Len(TokensOf(out[r])) :
               i < j => TokensOf(out[r])[i] < TokensOf(out[r])[j]
          /\ \A i \in 1..Len(TokensOf(out[r])) : TokensOf(out[r])[i] \in 1..orch[r].chunks)

\* C28 witness: a stream whose first chunk had no content and whose second
\* chunk carried a token has ended with its completion entry.
C28_Witness ==
  \E r \in Reqs :
    /\ orch[r].pc = "done" /\ ~orch[r].failed
    /\ orch[r].chunks = 2
    /\ orch[r].full_response = << 2 >>
    /\ TokensOf(out[r]) = << 2 >>

\* C29: the entry that an instrumented call created with status pending has
\* a terminal status once the wrapped function has returned or raised and the
\* wrapper has left - whatever other calls and clear() calls ran meanwhile.
C29_PendingReachesTerminal ==
  \A c \in CallIds :
    (Done(c) /\ ~calls[c].plain) => objs[calls[c].oid].status \in Terminal

\* The orchestrator of request r can take a step: it is not waiting, or the
\* calls it waits for are complete, or its loop has events to drain.
OrchReady(r) ==
  IF orch[r].pc \in {"cleared", "launch", "stream", "herror"} \cup DrainPcs THEN TRUE
  ELSE IF orch[r].pc \in {"sleep", "blocked"}
       THEN AllDone(r) \/ (orch[r].pc = "sleep" /\ queues[r] # << >>)
       ELSE FALSE

\* The function of call c can go on: await its nested call, raise, or return
\* once its own sleep has elapsed.
CallReady(c) ==
  /\ calls[c].pc = "sleeping"
  /\ IF calls[c].nested # "none" \/ calls[c].outcomes # "ok" THEN TRUE ELSE Elapsed(c)

\* C30: a wait loop that drains is left only when all the calls it waits for
\* are complete, and a drain follows it; and when every launched function
\* has returned or raised and the model stream has ended, so that neither the
\* orchestrator nor one of its calls can take a step, the response stream of
\* the request has ended.
C30_DrainLoopsEndAndStreamEnds ==
  /\ [][\A r \in Reqs :
          (orch[r].pc = "sleep" /\ orch'[r].pc \notin {"sleep", "drain"}) =>
             /\ AllDone(r)
             /\ orch'[r].pc \in DrainPcs]_vars
  /\ [](\A r \in Reqs :
          (/\ orch[r].pc # "idle"
           /\ ~OrchReady(r)
           /\ \A c \in CallIds : calls[c].req = r => ~CallReady(c)) => Ended(r))

\* ------------------------------------------------ claims, fourth group
\* The debug records of request r's output stream.
DebugRecs(r) == SelectSeq(out[r], LAMBDA x : x.type = "debug")

\* C31: no state of an entry is emitted twice: a response stream holds no two
\* debug records with the same id and the same status, and holds at most one
\* debug record per notification handed to the request's subscriber.
C31_NoStateEmittedTwice ==
  \A r \in Reqs :
    /\ \A i, j \in 1..Len(out[r]) :
         (i < j /\ out[r][i].type = "debug" /\ out[r][j].type = "debug") =>
           ~(out[r][i].id = out[r][j].id /\ out[r][i].status = out[r][j].status)
    /\ Len(DebugRecs(r)) <= Len(NotesFor(r))

\* C32: a drained debug record carries the status, content type and content
\* data its entry had when the subscriber was notified: the k-th record that
\* the drains of a request produced shows the k-th notification as it was
\* made, whatever update_log_status did to the entry in between.
C32_RecordShowsNotifiedState ==
  \A r \in Reqs : \A k \in 1..Len(Drained(r)) :
    k <= Len(NotesFor(r)) =>
      /\ Drained(r)[k].oid = NotesFor(r)[k].oid
      /\ Drained(r)[k].status = NotesFor(r)[k].status
      /\ Drained(r)[k].ctype = NotesFor(r)[k].ctype
      /\ Drained(r)[k].data = NotesFor(r)[k].data

\* C33: whenever the subscriber is notified of an entry with status error, the
\* entry has content type clickable at that moment: the forcing to clickable
\* comes before the notification of the error transition.
C33_ClickableWhenErrorNotified ==
  \A k \in 1..Len(notified) :
    notified[k].status = "error" => notified[k].ctype = "clickable"

\* The instrumented calls in flight: the wrapper has entered and not yet left.
InFlight == {c \in CallIds : ~calls[c].plain /\ calls[c].pc \in {"sleeping", "awaiting"}}

\* C34: within one request (no clear() ran while a call was in flight) the
\* store's level is the number of instrumented calls in flight, sibling tasks
\* and enclosing calls alike, hence 0 when none is in flight; a wrapper that
\* enters adds one to it and a wrapper that leaves takes one from it.
C34_LevelCountsCallsInFlight ==
  /\ [](Owned => level = Cardinality(InFlight))
  /\ [][(Owned /\ clears' = clears) =>
          level' - level = Cardinality(InFlight') - Cardinality(InFlight)]_vars

\* C34 witness: a request has ended with no call in flight and level 0 after
\* a nested call had entered while three calls were in flight.
C34_Witness ==
  /\ Owned
  /\ level = 0
  /\ InFlight = {}
  /\ \E r \in Reqs : orch[r].pc = "done"
  /\ \E c \in CallIds : Done(c) /\ calls[c].parent # 0 /\ calls[c].before = 3

\* C35: the log is append-only between two clear() calls.  In every reachable
\* state the ids of the entries are 1..Len(logs) in list order and current_id
\* is Len(logs); add_log appends one entry, with the next id, and leaves the
\* entries before it as they were; update_log_status, for any id, status and
\* data, keeps the list and changes at most the status and content data of
\* the entry with that id; and no step without clear() removes or reorders
\* entries or changes the id, level or title of one.
C35_LogAppendOnly ==
  /\ [](/\ current_id = Len(logs)
        /\ \A i \in 1..Len(logs) : objs[logs[i]].id = i
        /\ LET t == add_log(St, "direct", "success", "clickable", "none")
           IN /\ t.logs = Append(logs, Len(objs) + 1)
              /\ SubSeq(t.objs, 1, Len(objs)) = objs
              /\ t.objs[Len(objs) + 1].id = Len(logs) + 1
              /\ t.current_id = Len(logs) + 1
        /\ \A log_id \in 0..(MaxEntries + 1) : \A status \in Statuses :
             \A data \in {"none", "result"} :
               LET t == update_log_status(St, log_id, status, data)
               IN /\ t.logs = logs /\ Len(t.objs) = Len(objs)
                  /\ t.current_id = current_id /\ t.level = level
                  /\ \A o \in 1..Len(objs) :
                       IF InLogs(o) /\ objs[o].id = log_id
                       THEN t.objs[o] = [objs[o] EXCEPT !.status = status,
                                                       !.data = IF data = "none" THEN @ ELSE data]
                       ELSE t.objs[o] = objs[o])
  /\ [][clears' = clears =>
          /\ Len(logs') >= Len(logs)
          /\ SubSeq(logs', 1, Len(logs)) = logs
          /\ \A o \in 1..Len(objs) :
               /\ objs'[o].id = objs[o].id
               /\ objs'[o].level = objs[o].level
               /\ objs'[o].title = objs[o].title]_vars

\* C35 witness: after a clear() the log holds three entries, the second of
\* which an instrumented call created and updated to a terminal status.
C35_Witness ==
  /\ clears > 0
  /\ Len(logs) = 3
  /\ \E c \in CallIds :
       /\ Done(c) /\ ~calls[c].cleared /\ calls[c].log_id = 2
       /\ logs[2] = calls[c].oid
       /\ objs[calls[c].oid].status \in Terminal

\* C36: the terminal update of an instrumented call changes only the entry
\* that this call created: in every step, an entry that an instrumented call
\* created changes only if that call's wrapper leaves in the step - also when
\* clear() ran and entries were added since the call entered.
C36_UpdateHitsOwnEntry ==
  [][\A o \in 1..Len(objs) :
       (objs'[o] # objs[o] /\ \E d \in CallIds : ~calls[d].plain /\ calls[d].oid = o) =>
          \E c \in Leaving : calls[c].oid = o]_vars

\* The orchestrator of request r is reading the model stream.
Streaming(r) == orch[r].pc = "stream"

\* C37: while tokens are streamed the orchestrator does not drain.  A step
\* taken while the orchestrator reads the model stream takes nothing from the
\* request's queue and adds no debug record to its stream unless it ends the
\* reading; chat records are added only while reading; so no debug record
\* lies between two chat records, and the notifications made meanwhile wait
\* in the queue, in order, until the last chat record has been written.
C37_NoDrainWhileStreaming ==
  /\ [][\A r \in Reqs :
          /\ (Streaming(r) /\ orch'[r].pc = "stream") =>
                /\ Len(queues'[r]) >= Len(queues[r])
                /\ SubSeq(queues'[r], 1, Len(queues[r])) = queues[r]
                /\ \A i \in (Len(out[r]) + 1)..Len(out'[r]) : out'[r][i].type = "chat"
          /\ (~Streaming(r) /\ orch[r].pc # "idle") =>
                \A i \in (Len(out[r]) + 1)..Len(out'[r]) : out'[r][i].type # "chat"
          /\ (Streaming(r) /\ orch'[r].pc # "stream") => Len(queues'[r]) >= Len(queues[r])]_vars
  /\ [](\A r \in Reqs :
          LET chat == {i \in 1..Len(out[r]) : out[r][i].type = "chat"}
          IN \A i \in chat : i = Min(chat) \/ (i - 1) \in chat)
  /\ [](\A r \in Reqs :
          Streaming(r) => Len(queues[r]) = Len(NotesFor(r)) - Len(Drained(r)))

\* C37 witness: a request has ended normally with two chat records followed
\* by the record of a notification made while they were streamed and by the
\* completion entry.
C37_Witness ==
  \E r \in Reqs :
    /\ orch[r].pc = "done" /\ ~orch[r].failed
    /\ Len(out[r]) >= 4
    /\ out[r][Len(out[r]) - 3].type = "chat"
    /\ out[r][Len(out[r]) - 2].type = "chat"
    /\ out[r][Len(out[r]) - 1].type = "debug"
    /\ out[r][Len(out[r]) - 1].title # "Processing Complete"
    /\ Last(out[r]).title = "Processing Complete"

\* The calls of load_homework_handler made for feature f, as indexes of loads.
LoadsOf(f) == {k \in 1..Len(loads) : loads[k].feature_id = f}

\* C38: for every feature id at most one call of load_homework_handler
\* created a handler instance, and every later call for that id returned this
\* same instance, which is the one in the cache; instances are created for
\* enabled features only.  A call for an unknown id raises 404, one for a
\* disabled feature 501 and a failed load 500, and a call that raises leaves
\* the cache as it was.
C38_HandlerLoadedOnce ==
  /\ [](\A f \in FeatureIds :
          /\ Cardinality({k \in LoadsOf(f) : loads[k].created}) <= 1
          /\ \A k \in LoadsOf(f) :
               /\ loads[k].created =>
                    /\ f \in DOMAIN HOMEWORK_FEATURES /\ HOMEWORK_FEATURES[f].enabled
                    /\ f \in DOMAIN handler_cache /\ handler_cache[f] = loads[k].instance
                    /\ \A j \in LoadsOf(f) :
                         j > k => (/\ loads[j].status = 200
                                   /\ ~loads[j].created
                                   /\ loads[j].instance = loads[k].instance)
               /\ loads[k].status = 200 =>
                    \E j \in LoadsOf(f) : j <= k /\ loads[j].created
               /\ loads[k].status # 200 =>
                    loads[k].status =
                      (IF f \notin DOMAIN HOMEWORK_FEATURES THEN 404
                       ELSE IF ~HOMEWORK_FEATURES[f].enabled THEN 501 ELSE 500))
  /\ [][(Len(loads') > Len(loads) /\ loads'[Len(loads')].status # 200) =>
          handler_cache' = handler_cache]_vars

\* C38 witness: a load of an enabled feature failed, the next one created
\* the handler and two later calls returned that instance from the cache.
C38_Witness ==
  \E f \in DOMAIN handler_cache :
    /\ Len(loads) = 4
    /\ loads[1].feature_id = f /\ loads[1].status = 500
    /\ loads[2].feature_id = f /\ loads[2].created
    /\ loads[3].feature_id = f /\ ~loads[3].created /\ loads[3].instance = loads[2].instance
    /\ loads[4].feature_id = f /\ loads[4].instance = handler_cache[f]

\* C39: when a comparison command has returned, config['adjacent_chunks'] has
\* the value it had when the command began, on every exit path.
C39_CompareRestoresConfig ==
  (console.pc = "idle" /\ console.command \in CompareCommands) =>
     config.adjacent_chunks = console.before
====
